---- MODULE Spec2Model ----
(***************************************************************************)
(* A model of irc_api: the IRC connection (irc.py: IRC, History, Message)  *)
(* and the bot runtime (api.py: the decorators, Command, Bot, parse,       *)
(* convert, check_args).                                                   *)
(*                                                                         *)
(* Strings are sequences of atoms.  An atom is a TLA+ string standing for  *)
(* a run of characters that the code only ever inspects as a whole         *)
(* ("PING", "PRIVMSG", "alice", " ", ":").  Concatenation, equality,       *)
(* startswith, the in test, replace and split are computed on these        *)
(* sequences the way Python computes them on characters.                   *)
(***************************************************************************)
EXTENDS Integers, Sequences, FiniteSets, TLC

VARIABLES
    net,            \* bytes the server has written and the reader has not read yet
    served,         \* number of lines the server has written so far
    readerOn,       \* IRC.__handler has been started
    pending,        \* the reader's current data.split('\r\n') list, rest of the for loop
    inbox,          \* IRC.__inbox
    connected,      \* IRC.connected
    wire,           \* the lines written to the socket, in order
    rlog,           \* trace of the reader thread: lines handled, lines written
    mlog,           \* trace of the foreground thread: lines taken, writes, calls
    pc,             \* position of the foreground thread (Bot.start)
    PREFIX,         \* api.PREFIX, the module global
    prefix,         \* Bot.prefix
    auth,           \* Bot.auth
    channels,       \* Bot.channels
    history,        \* Bot.history
    callbacks,      \* Bot.callbacks, in insertion order
    commands_help,  \* Bot.commands_help, in insertion order
    joined,         \* number of channels of the join loop already done
    message,        \* the message variable of the mainloop
    iter,           \* position of the for loop over callbacks.values()
    di_used,        \* size of callbacks when that for loop started
    threads,        \* Bot.threads: the threads of the periodic routines
    arg,            \* input of the function applied by the single-function specifications
    res             \* its result

vars == <<net, served, readerOn, pending, inbox, connected, wire, rlog, mlog, pc, PREFIX,
          prefix, auth, channels, history, callbacks, commands_help, joined,
          message, iter, di_used, threads, arg, res>>

netVars == <<net, served, readerOn, pending, inbox, wire, rlog, mlog>>
botVars == <<connected, pc, PREFIX, prefix, auth, channels, history, callbacks,
             commands_help, joined, message, iter, di_used, threads>>
funVars == <<arg, res>>

----------------------------------------------------------------------------
(* Bounds *)

MaxLines == 2        \* lines the server writes in one run
MaxCommands == 2     \* add_command calls before start
MaxLoopLines == 3    \* lines the server writes in one run of the small specifications
MaxThreads == 2      \* periodic rules registered
MaxCalls == 2        \* invocations of a periodic routine that are counted
MaxTextLen == 4      \* length of the texts tried against a Named rule
MaxTokens == 3       \* tokens handed to check_args
MaxParams == 2       \* typed parameters of a handler
MaxLimit == 3        \* largest History limit tried
MaxInserted == 5     \* History.add calls in one run

----------------------------------------------------------------------------
(* Python str operations, on sequences of atoms *)

CRLF == "\r\n"
SP == " "

\* s[i:j] with 0-based half-open Python indices, 0 <= i, j <= len(s)
Slice(s, i, j) == IF j <= i THEN <<>> ELSE SubSeq(s, i + 1, j)

\* s.startswith(p)
StartsWith(s, p) == Len(p) <= Len(s) /\ SubSeq(s, 1, Len(p)) = p

\* s.endswith(p)
EndsWith(s, p) == Len(p) <= Len(s) /\ SubSeq(s, Len(s) - Len(p) + 1, Len(s)) = p

\* sub in s
Contains(s, sub) ==
    \E i \in 0..(Len(s) - Len(sub)) : SubSeq(s, i + 1, i + Len(sub)) = sub

\* s.replace(old, new) for a one-atom old: every occurrence is replaced
Replace(s, old, new) == [i \in 1..Len(s) |-> IF s[i] = old THEN new ELSE s[i]]

\* index of the first atom equal to sep, 0 when there is none
RECURSIVE Find(_, _, _)
Find(s, sep, from) ==
    IF from > Len(s) THEN 0
    ELSE IF s[from] = sep THEN from
    ELSE Find(s, sep, from + 1)

\* s.split(sep): the pieces between separators, empty pieces included
RECURSIVE Split(_, _)
Split(s, sep) ==
    LET k == Find(s, sep, 1) IN
    IF k = 0 THEN <<s>>
    ELSE <<SubSeq(s, 1, k - 1)>> \o Split(SubSeq(s, k + 1, Len(s)), sep)

\* s.strip()
RECURSIVE Strip(_)
Strip(s) ==
    IF s # <<>> /\ s[1] = SP THEN Strip(Tail(s))
    ELSE IF s # <<>> /\ s[Len(s)] = SP THEN Strip(SubSeq(s, 1, Len(s) - 1))
    ELSE s

\* s.splitlines(): split on "\n", without a trailing empty line
SplitLines(s) ==
    LET parts == Split(s, "\n") IN
    IF parts[Len(parts)] = <<>> THEN SubSeq(parts, 1, Len(parts) - 1) ELSE parts

----------------------------------------------------------------------------
(* irc.py: Message *)

\* Atoms holding a character outside the author class [\w.~|\-\[\]].
\* The phrases hold spaces, so they are outside \S as well.
Phrases == {"You are now logged in", "Erreur : les arguments donnés ne correspondent pas."}
Punct == {":", "!", "#room", "#dev", "/AUTH", "\"", "'", "\n", CRLF}

IsAuthorAtom(a) == a \notin Punct \cup Phrases \cup {SP}
IsNonSpace(a) == a \notin Phrases \cup {SP, "\n", CRLF}

\* length of the longest run of author atoms of s that starts at index i
RECURSIVE AuthorRun(_, _)
AuthorRun(s, i) ==
    IF i <= Len(s) /\ IsAuthorAtom(s[i]) THEN 1 + AuthorRun(s, i + 1) ELSE 0

\* length of the longest run of \S atoms of s that starts at index i
RECURSIVE NonSpaceRun(_, _)
NonSpaceRun(s, i) ==
    IF i <= Len(s) /\ IsNonSpace(s[i]) THEN 1 + NonSpaceRun(s, i + 1) ELSE 0

At(s, i) == IF 1 <= i /\ i <= Len(s) THEN s[i] ELSE "<end>"

\* re.search(Message.pattern, raw): the groups, or matched = FALSE.
\* ^:(author)(?:!(host))? PRIVMSG (to) :(text) ; every class excludes the
\* character that has to follow it, so each run is the longest one.
Match(raw) ==
    LET a == AuthorRun(raw, 2)
        p == 2 + a
        h == NonSpaceRun(raw, p + 1)
        q == IF At(raw, p) = "!" THEN p + 1 + h ELSE p
        r == q + 3
        t == NonSpaceRun(raw, r)
        u == r + t
        ok == /\ At(raw, 1) = ":"
              /\ a >= 1
              /\ (At(raw, p) = "!" => h >= 1)
              /\ At(raw, q) = SP /\ At(raw, q + 1) = "PRIVMSG" /\ At(raw, q + 2) = SP
              /\ t >= 1
              /\ At(raw, u) = SP /\ At(raw, u + 1) = ":"
              /\ Len(raw) >= u + 2
    IN  IF ok
        THEN [matched |-> TRUE, author |-> SubSeq(raw, 2, p - 1),
              to |-> SubSeq(raw, r, u - 1), text |-> SubSeq(raw, u + 2, Len(raw))]
        ELSE [matched |-> FALSE, author |-> <<>>, to |-> <<>>, text |-> <<>>]

\* Message.__init__: the three fields, empty when the line does not match
Message(raw) ==
    LET m == Match(raw) IN
    IF m.matched THEN [author |-> m.author, to |-> m.to, text |-> m.text]
    ELSE [author |-> <<>>, to |-> <<>>, text |-> <<>>]

\* bool(msg): Message defines neither __bool__ nor __len__, so every
\* instance is true
Truth(msg) == TRUE

----------------------------------------------------------------------------
(* irc.py: History *)

DefaultLimit == 100

\* History.__init__
NewHistory(limit) ==
    [content |-> <<>>, limit |-> IF limit # 0 THEN limit ELSE DefaultLimit]

\* History.add with pop() in place of pop(0): the newest entry is dropped
HistoryAddPopLast(h, elmnt) ==
    LET kept == IF Len(h.content) = h.limit
                THEN SubSeq(h.content, 1, Len(h.content) - 1)
                ELSE h.content
    IN  [h EXCEPT !.content = Append(kept, elmnt)]

\* History.add
HistoryAdd(h, elmnt) ==
    LET kept == IF Len(h.content) = h.limit THEN Tail(h.content) ELSE h.content
    IN  [h EXCEPT !.content = Append(kept, elmnt)]

----------------------------------------------------------------------------
(* api.py: parse, convert, check_args *)

\* Python values: a type tag and a value
PyStr(s) == [type |-> "str", val |-> s]
PyInt(n) == [type |-> "int", val |-> n]
PyList(l) == [type |-> "list", val |-> l]
PyNone == [type |-> "NoneType", val |-> 0]
\* the WrongArg instance check_args creates
WrongArg == [type |-> "WrongArg", val |-> 0]

QUOTE2 == "\""
QUOTE1 == "'"

\* length of the longest run of atoms other than c that starts at index i
RECURSIVE RunNot(_, _, _)
RunNot(s, c, i) ==
    IF i <= Len(s) /\ s[i] # c THEN 1 + RunNot(s, c, i + 1) ELSE 0

\* length of the run of spaces that starts at index i
RECURSIVE Spaces(_, _)
Spaces(s, i) ==
    IF i <= Len(s) /\ s[i] = SP THEN 1 + Spaces(s, i + 1) ELSE 0

\* one alternative ("[^"]+"\ *) or ('[^']+'\ *) of the pattern at index i:
\* the length matched, 0 when it does not match
Quoted(s, q, i) ==
    LET k == RunNot(s, q, i + 1) IN
    IF At(s, i) = q /\ k >= 1 /\ At(s, i + 1 + k) = q
    THEN k + 2 + Spaces(s, i + k + 2)
    ELSE 0

\* the alternative ([^\ ]+\ *) at index i
Bare(s, i) ==
    LET k == RunNot(s, SP, i) IN
    IF k >= 1 THEN k + Spaces(s, i + k) ELSE 0

\* the length of the match of the whole pattern at index i (first
\* alternative that matches), 0 when none does
MatchLen(s, i) ==
    IF Quoted(s, QUOTE2, i) > 0 THEN Quoted(s, QUOTE2, i)
    ELSE IF Quoted(s, QUOTE1, i) > 0 THEN Quoted(s, QUOTE1, i)
    ELSE Bare(s, i)

\* the body of parse's for loop: strip the match, drop a pair of quotes
Unquote(m) ==
    LET t == Strip(m) IN
    IF \/ StartsWith(t, <<QUOTE2>>) /\ EndsWith(t, <<QUOTE2>>)
       \/ StartsWith(t, <<QUOTE1>>) /\ EndsWith(t, <<QUOTE1>>)
    THEN Slice(t, 1, Len(t) - 1)
    ELSE t

\* re.findall from index i on, each match turned into its token
RECURSIVE ParseFrom(_, _)
ParseFrom(s, i) ==
    IF i > Len(s) THEN <<>>
    ELSE LET n == MatchLen(s, i) IN
         IF n = 0 THEN ParseFrom(s, i + 1)
         ELSE <<Unquote(SubSeq(s, i, i + n - 1))>> \o ParseFrom(s, i + n)

\* parse(message)
Parse(text) == ParseFrom(text, 1)

\* the value of a decimal digit atom, -1 for any other atom
DigitOf(a) ==
    CASE a = "0" -> 0 [] a = "1" -> 1 [] a = "2" -> 2 [] a = "3" -> 3
      [] a = "4" -> 4 [] a = "5" -> 5 [] a = "6" -> 6 [] a = "7" -> 7
      [] a = "8" -> 8 [] a = "9" -> 9 [] OTHER -> -1

RECURSIVE Decimal(_, _)
Decimal(ds, acc) ==
    IF ds = <<>> THEN acc ELSE Decimal(Tail(ds), 10 * acc + DigitOf(ds[1]))

\* int(s): surrounding spaces and one sign are accepted, then digits only
IntParse(s) ==
    LET t == Strip(s)
        signed == t # <<>> /\ t[1] \in {"+", "-"}
        ds == IF signed THEN Tail(t) ELSE t
        ok == ds # <<>> /\ \A i \in 1..Len(ds) : DigitOf(ds[i]) >= 0
    IN  [ok |-> ok,
         val |-> IF ~ok THEN 0
                 ELSE IF signed /\ t[1] = "-" THEN 0 - Decimal(ds, 0)
                 ELSE Decimal(ds, 0)]

\* convert called without its default: a failure gives None
ConvertNone(data, new_type, default) ==
    IF new_type = "str" THEN PyStr(data)
    ELSE IF IntParse(data).ok THEN PyInt(IntParse(data).val)
    ELSE PyNone

\* convert(data, new_type, default): new_type(data), the default when it raises
Convert(data, new_type, default) ==
    IF new_type = "str" THEN PyStr(data)
    ELSE IF IntParse(data).ok THEN PyInt(IntParse(data).val)
    ELSE default

\* the loop of check_args from position index (0-based) on
RECURSIVE Converted(_, _, _, _)
Converted(annotations, defaults, input_args, index) ==
    IF index >= Len(annotations) THEN <<>>
    ELSE LET required_args == Len(annotations) - Len(defaults)
             arg_type == annotations[index + 1]
             dflt == IF index + 1 > required_args
                     THEN defaults[index - required_args + 1]
                     ELSE WrongArg
             value == IF Len(input_args) > index
                      THEN Convert(input_args[index + 1], arg_type, dflt)
                      ELSE dflt
         IN  <<value>> \o Converted(annotations, defaults, input_args, index + 1)

\* wrong_arg in converted_args
HasWrongArg(converted_args) ==
    \E i \in 1..Len(converted_args) : converted_args[i].type = "WrongArg"

\* check_args(func, *input_args), func given by its __annotations__ (the
\* types) and its __defaults__
CheckArgs(func, input_args) ==
    LET required_args == Len(func.annotations) - Len(func.defaults)
        converted_args == Converted(func.annotations, func.defaults, input_args, 0)
    IN  IF func.annotations = <<>> THEN PyList(<<>>)
        ELSE IF Len(input_args) < required_args THEN PyNone
        ELSE IF HasWrongArg(converted_args) THEN PyNone
        ELSE PyList(converted_args)

----------------------------------------------------------------------------
(* api.py: the decorators and Command *)

\* dict[key] = value on a dict kept as the sequence of its values in
\* insertion order: an existing key keeps its place
DictSet(d, c) ==
    IF \E i \in 1..Len(d) : d[i].name = c.name
    THEN [i \in 1..Len(d) |-> IF d[i].name = c.name THEN c ELSE d[i]]
    ELSE Append(d, c)

HasKey(d, name) == \E i \in 1..Len(d) : d[i].name = name

\* d.pop(key) for a key of d
DictPop(d, name) == SelectSeq(d, LAMBDA c : c.name # name)

\* Command.__init__
Command(name, func, events, cmnd_type) ==
    [name |-> name, func |-> func, events |-> events, cmnd_type |-> cmnd_type]

\* command(name, alias)(func)
CommandDeco(name, alias, func) ==
    LET names == IF alias = <<>> \/ ~(\E i \in 1..Len(alias) : alias[i] = name)
                 THEN Append(alias, name)
                 ELSE alias
    IN  Command(name, func, <<[kind |-> "command", names |-> names]>>, 1)

\* every(time)(func): events is the interval
EveryDeco(time, func) == Command(func.name, func, time, 2)

\* the decorator of on, channel and user, applied to a Command or to a
\* function: a Command gets one more event, a function becomes a Command
Stack(event, func_or_cmnd) ==
    IF "cmnd_type" \in DOMAIN func_or_cmnd
    THEN [func_or_cmnd EXCEPT !.events = Append(@, event)]
    ELSE Command(func_or_cmnd.name, func_or_cmnd, <<event>>, 0)

\* on(event)(func_or_cmnd), for the events lambda m: word in m.text
OnDeco(word, func_or_cmnd) == Stack([kind |-> "on", names |-> <<word>>], func_or_cmnd)

\* channel(channel_name)(func_or_cmnd)
ChannelDeco(channel_name, func_or_cmnd) ==
    Stack([kind |-> "channel", names |-> <<channel_name>>], func_or_cmnd)

\* user(user_name)(func_or_cmnd)
UserDeco(user_name, func_or_cmnd) ==
    Stack([kind |-> "user", names |-> <<user_name>>], func_or_cmnd)

\* the lambda of command without the separating space
NamedEventNoSpace(alias, text, globalPrefix) ==
    \E i \in 1..Len(alias) : StartsWith(text, globalPrefix \o alias[i])

\* the lambda of command: True in [m.text == PREFIX + cmd or
\* m.text.startswith(PREFIX + cmd + " ") for cmd in alias]; PREFIX is the
\* module global, read when the lambda runs
NamedEvent(alias, text, globalPrefix) ==
    \E i \in 1..Len(alias) :
        \/ text = globalPrefix \o alias[i]
        \/ StartsWith(text, globalPrefix \o alias[i] \o <<SP>>)

\* event(message) for the events the decorators build
Event(event, m, globalPrefix) ==
    CASE event.kind = "command" -> NamedEvent(event.names, m.text, globalPrefix)
      [] event.kind = "channel" -> m.to = event.names[1]
      [] event.kind = "user" -> m.author = event.names[1]
      [] event.kind = "on" -> Contains(m.text, event.names[1])

\* not False in [event(message) for event in callback.events]
Matches(callback, m, globalPrefix) ==
    ~(\E i \in 1..Len(callback.events) : Event(callback.events[i], m, globalPrefix) = FALSE)

----------------------------------------------------------------------------
(* The application and the server: the inputs of a run *)

\* A handler or routine: its __name__, __annotations__, __defaults__, the
\* text it sends to message.to, and what its body does besides: it returns,
\* never returns ("block"), raises, may raise ("flaky"), or calls
\* bot.remove_command(target) ("remove").
Func(name, annotations, reply, does, target) ==
    [name |-> name, annotations |-> annotations, defaults |-> <<>>, reply |-> reply,
     does |-> does, target |-> target]

\* def foo(bot, message): bot.send(message.to, "pong")   (api.py, docstring of command)
FuncPing == Func(<<"foo">>, <<>>, <<"pong">>, "return", <<>>)
\* def add(bot, message, n: int): pass
FuncAdd == Func(<<"add">>, <<"int">>, <<>>, "return", <<>>)
\* def log(bot, message): pass
FuncLog == Func(<<"log">>, <<>>, <<>>, "return", <<>>)
\* def seen(bot, message): pass
FuncSeen == Func(<<"seen">>, <<>>, <<>>, "return", <<>>)
\* def hang(bot, message): while True: pass
FuncHang == Func(<<"hang">>, <<>>, <<>>, "block", <<>>)
\* def drop(bot, message): bot.remove_command("ping")
FuncDrop == Func(<<"drop">>, <<>>, <<>>, "remove", <<"ping">>)
\* def boom(bot, message): raise ValueError
FuncBoom == Func(<<"boom">>, <<>>, <<>>, "raise", <<>>)
\* def auto_help(bot, message): pass   (a handler of the application)
FuncAuto == Func(<<"auto_help">>, <<>>, <<>>, "return", <<>>)
\* def hello(bot): bot.send("#room", "hello")
FuncHello == Func(<<"hello">>, <<>>, <<"hello">>, "return", <<>>)
\* def tick(bot): pass
FuncTick == Func(<<"tick">>, <<>>, <<>>, "return", <<>>)
\* def poll(bot): a routine that raises when the resource it polls is away
FuncPoll == Func(<<"poll">>, <<>>, <<>>, "flaky", <<>>)
\* def purge(bot): bot.remove_command("ping")
FuncPurge == Func(<<"purge">>, <<>>, <<>>, "remove", <<"ping">>)

\* @command("ping")
CmdPing == CommandDeco(<<"ping">>, <<>>, FuncPing)
\* @user("alice") @command("add")
CmdAdd == UserDeco(<<"alice">>, CommandDeco(<<"add">>, <<>>, FuncAdd))
\* @channel("#room")
CmdLog == ChannelDeco(<<"#room">>, FuncLog)

\* @on(lambda m: "" in m.text), true of every message
CmdSeen == OnDeco(<<>>, FuncSeen)

Commands == {CmdPing, CmdAdd, CmdLog}

\* @every(5) on tick, poll and purge
EveryTick == EveryDeco(5, FuncTick)
EveryPoll == EveryDeco(5, FuncPoll)
EveryPurge == EveryDeco(5, FuncPurge)
EveryHello == EveryDeco(5, FuncHello)

LOGGED == "You are now logged in"
ERREUR == "Erreur : les arguments donnés ne correspondent pas."

Privmsg(author, to, text) == <<":", author, SP, "PRIVMSG", SP, to, SP, ":">> \o text

LinePing == <<"PING", SP, ":", "srv">>
LineLogin == <<":", "srv", SP, "NOTICE", SP, "bot", SP, ":", LOGGED>>
LineAuth == <<":", "srv", SP, "NOTICE", SP, "bot", SP, ":", "/AUTH">>
LineCmdPing == Privmsg("alice", "#room", <<"!", "ping">>)
LineAddX == Privmsg("alice", "#room", <<"!", "add", SP, "x">>)
LineAddBob == Privmsg("bob", "#room", <<"!", "add", SP, "5">>)
LineAdd5 == Privmsg("alice", "#dev", <<"!", "add", SP, "5">>)
LineUnparsed == <<"alice", SP, "PRIVMSG", SP, "#room">>

\* what the server may write
Lines == {LinePing, LineLogin, LineCmdPing, LineAddX, LineAddBob, LineAdd5,
          LineUnparsed}

Nick == <<"bot">>

\* the auth argument of Bot: empty, or (username, password)
Auths == {<<>>, <<"user", "secret">>}

\* the limit argument of Bot: the documented int, or an object with an
\* add method (Bot.__init__ stores whatever it is given)
Limits == {PyInt(DefaultLimit), [type |-> "History", val |-> NewHistory(2)]}

NoMessage == [author |-> <<"<none>">>, to |-> <<>>, text |-> <<>>]

\* the model's bookkeeping of events
Ev(op, by, data) == [op |-> op, by |-> by, data |-> data]

----------------------------------------------------------------------------
(* State after IRC.__init__ and Bot.__init__ *)

\* IRC.__init__: connected = False, an empty inbox, the reader not started
InitNet ==
    /\ net = <<>>
    /\ served = 0
    /\ readerOn = FALSE
    /\ pending = <<>>
    /\ inbox = <<>>
    /\ wire = <<>>
    /\ rlog = <<>>
    /\ mlog = <<>>

\* Bot.__init__(irc_params, auth, channels, prefix, limit)
InitBot(p, a, ch, limit) ==
    /\ PREFIX = p
    /\ prefix = p
    /\ connected = FALSE
    /\ history = limit
    /\ channels = ch
    /\ auth = a
    /\ callbacks = <<>>
    /\ commands_help = <<>>
    /\ pc = "created"
    /\ joined = 0
    /\ message = NoMessage
    /\ iter = 0
    /\ di_used = 0
    /\ threads = <<>>

Init ==
    /\ InitNet
    /\ \E limit \in Limits : InitBot(<<"!">>, <<>>, <<"#room", "#dev">>, limit)
    /\ arg = <<>>
    /\ res = <<>>

----------------------------------------------------------------------------
(* The server and the reader thread (IRC.__handle) *)

\* IRC.send(raw): one line written to the socket
Written(by, raw) == Ev("send", by, raw)

\* the server writes one line and its terminator, at most max lines in all
ServerWrites(l, max) ==
    /\ served < max
    /\ served' = served + 1
    /\ net' = net \o l \o <<CRLF>>
    /\ UNCHANGED <<readerOn, pending, inbox, wire, rlog, mlog>>
    /\ UNCHANGED botVars
    /\ UNCHANGED funVars

ServerSend(l) == ServerWrites(l, MaxLines)

\* data = self.__socket.recv(4096).decode(), n atoms long, and the split
Recv(n) ==
    /\ readerOn
    /\ pending = <<>>
    /\ n \in 1..Len(net)
    /\ pending' = Split(SubSeq(net, 1, n), CRLF)
    /\ net' = SubSeq(net, n + 1, Len(net))
    /\ UNCHANGED <<served, readerOn, inbox, wire, rlog, mlog>>
    /\ UNCHANGED botVars
    /\ UNCHANGED funVars

\* the for loop body with if in place of elif: a ping is answered and queued
HandlePutAll(msg) == IF Len(msg) # 0 THEN <<msg>> ELSE <<>>

\* what one pass of the for loop body appends to the inbox
HandlePut(msg) ==
    IF StartsWith(msg, <<"PING">>) THEN <<>>
    ELSE IF Len(msg) # 0 THEN <<msg>>
    ELSE <<>>

\* the for loop body without the answer to a ping
HandleSendNone(msg) == <<>>

\* what one pass of the for loop body writes to the socket
HandleSend(msg) ==
    IF StartsWith(msg, <<"PING">>) THEN <<Written("reader", Replace(msg, "PING", "PONG"))>>
    ELSE <<>>

\* one pass of the for loop of IRC.__handle
Handle ==
    /\ pending # <<>>
    /\ LET msg == Head(pending) IN
        /\ inbox' = inbox \o HandlePut(msg)
        /\ rlog' = rlog \o (IF Len(msg) # 0 THEN <<Ev("handle", "reader", msg)>> ELSE <<>>)
                        \o HandleSend(msg)
        /\ wire' = wire \o HandleSend(msg)
        /\ UNCHANGED mlog
    /\ pending' = Tail(pending)
    /\ UNCHANGED <<net, served, readerOn>>
    /\ UNCHANGED botVars
    /\ UNCHANGED funVars

----------------------------------------------------------------------------
(* The foreground thread: registration, Bot.start, IRC.connexion *)

\* Bot.send(target, message): one PRIVMSG per line of the message
BotSend(target, text) ==
    LET lines == SplitLines(text) IN
    [i \in 1..Len(lines) |->
        Written("main", <<"PRIVMSG", SP>> \o target \o <<SP, ":">> \o lines[i])]

\* the foreground thread does these events: its socket writes go to the wire
IsSend(e) == e.op = "send"
MainDoes(events) ==
    /\ mlog' = mlog \o events
    /\ wire' = wire \o SelectSeq(events, IsSend)
    /\ UNCHANGED rlog

\* Thread(target=lambda bot: timed_func(bot), args=(self,)), started: the
\* thread is about to run the first statement of timed_func
NewThread(command) == [command |-> command, at |-> "call", calls |-> 0, args |-> <<>>]

\* what add_command(command, add_to_help) makes of callbacks,
\* commands_help and threads
AddTo(bot, command, add_to_help) ==
    [callbacks |-> IF command.cmnd_type = 2 THEN bot.callbacks
                   ELSE DictSet(bot.callbacks, command),
     threads |-> IF command.cmnd_type = 2 THEN Append(bot.threads, NewThread(command))
                 ELSE bot.threads,
     commands_help |-> IF add_to_help THEN DictSet(bot.commands_help, command)
                       ELSE bot.commands_help]

\* Bot.add_command(command, add_to_help), called before Bot.start
AddCommand(command, add_to_help) ==
    /\ pc = "created"
    /\ IF command.cmnd_type = 2 THEN Len(threads) < MaxThreads
       ELSE Len(callbacks) < MaxCommands
    /\ LET after == AddTo([callbacks |-> callbacks, commands_help |-> commands_help,
                           threads |-> threads], command, add_to_help)
       IN  /\ callbacks' = after.callbacks
           /\ threads' = after.threads
           /\ commands_help' = after.commands_help
    /\ UNCHANGED <<connected, pc, PREFIX, prefix, auth, channels, history, joined,
                   message, iter, di_used>>
    /\ UNCHANGED netVars
    /\ UNCHANGED funVars

\* Bot.remove_command(command_name): the two mappings afterwards, and
\* whether the second pop raised KeyError
RemoveCommand(cbs, help, command_name) ==
    IF HasKey(cbs, command_name)
    THEN [callbacks |-> DictPop(cbs, command_name),
          commands_help |-> IF HasKey(help, command_name) THEN DictPop(help, command_name)
                            ELSE help,
          raised |-> ~HasKey(help, command_name)]
    ELSE [callbacks |-> cbs, commands_help |-> help, raised |-> FALSE]

\* Bot.start -> IRC.connexion: self.__handler.start()
Start ==
    /\ pc = "created"
    /\ readerOn' = TRUE
    /\ pc' = "user"
    /\ UNCHANGED <<net, served, pending, inbox, wire, rlog, mlog>>
    /\ UNCHANGED <<connected, PREFIX, prefix, auth, channels, history, callbacks,
                   commands_help, joined, message, iter, di_used, threads>>
    /\ UNCHANGED funVars

\* self.send(f"USER {nick} * * :{nick}")
SendUser ==
    /\ pc = "user"
    /\ MainDoes(<<Written("main",
                 <<"USER", SP>> \o Nick \o <<SP, "*", SP, "*", SP, ":">> \o Nick)>>)
    /\ pc' = "nick"
    /\ UNCHANGED <<net, served, readerOn, pending, inbox>>
    /\ UNCHANGED <<connected, PREFIX, prefix, auth, channels, history, callbacks,
                   commands_help, joined, message, iter, di_used, threads>>
    /\ UNCHANGED funVars

\* self.send(f"NICK {nick}") and the test of auth
SendNick ==
    /\ pc = "nick"
    /\ MainDoes(<<Written("main", <<"NICK", SP>> \o Nick)>>)
    /\ pc' = IF auth # <<>> THEN "waitAuth" ELSE "waitLogin"
    /\ UNCHANGED <<net, served, readerOn, pending, inbox>>
    /\ UNCHANGED <<connected, PREFIX, prefix, auth, channels, history, callbacks,
                   commands_help, joined, message, iter, di_used, threads>>
    /\ UNCHANGED funVars

\* lambda m: "NOTICE" in m and "/AUTH" in m
IsAuthPrompt(m) == Contains(m, <<"NOTICE">>) /\ Contains(m, <<"/AUTH">>)

\* one self.__inbox.get() of IRC.waitfor and the test of its while loop,
\* in self.waitfor(lambda m: "NOTICE" in m and "/AUTH" in m)
WaitAuth ==
    /\ pc = "waitAuth"
    /\ inbox # <<>>
    /\ inbox' = Tail(inbox)
    /\ MainDoes(<<Ev("waitfor", "main", Head(inbox))>>)
    /\ pc' = IF IsAuthPrompt(Head(inbox)) THEN "auth" ELSE "waitAuth"
    /\ UNCHANGED <<net, served, readerOn, pending>>
    /\ UNCHANGED <<connected, PREFIX, prefix, auth, channels, history, callbacks,
                   commands_help, joined, message, iter, di_used, threads>>
    /\ UNCHANGED funVars

\* self.send(f"AUTH {username}:{password}"): connexion has no variable
\* username or password, nor has the module, so building the string raises
\* NameError; send is not called and the error ends connexion and Bot.start
SendAuth ==
    /\ pc = "auth"
    /\ pc' = "dead"
    /\ UNCHANGED <<connected, PREFIX, prefix, auth, channels, history, callbacks,
                   commands_help, joined, message, iter, di_used, threads>>
    /\ UNCHANGED netVars
    /\ UNCHANGED funVars

\* a waitfor condition that accepts every line
IsLoggedInAny(m) == TRUE

\* lambda m: "You are now logged in" in m
IsLoggedIn(m) == Contains(m, <<LOGGED>>)

\* a waitfor that puts a line that fails the condition back on the queue
WaitLoginRequeue ==
    /\ pc = "waitLogin"
    /\ inbox # <<>>
    /\ inbox' = IF IsLoggedIn(Head(inbox)) THEN Tail(inbox)
                ELSE Append(Tail(inbox), Head(inbox))
    /\ MainDoes(<<Ev("waitfor", "main", Head(inbox))>>)
    /\ pc' = IF IsLoggedIn(Head(inbox)) THEN "logged" ELSE "waitLogin"
    /\ UNCHANGED <<net, served, readerOn, pending>>
    /\ UNCHANGED <<connected, PREFIX, prefix, auth, channels, history, callbacks,
                   commands_help, joined, message, iter, di_used, threads>>
    /\ UNCHANGED funVars

\* one self.__inbox.get() of IRC.waitfor and the test of its while loop,
\* in self.waitfor(lambda m: "You are now logged in" in m)
WaitLogin ==
    /\ pc = "waitLogin"
    /\ inbox # <<>>
    /\ inbox' = Tail(inbox)
    /\ MainDoes(<<Ev("waitfor", "main", Head(inbox))>>)
    /\ pc' = IF IsLoggedIn(Head(inbox)) THEN "logged" ELSE "waitLogin"
    /\ UNCHANGED <<net, served, readerOn, pending>>
    /\ UNCHANGED <<connected, PREFIX, prefix, auth, channels, history, callbacks,
                   commands_help, joined, message, iter, di_used, threads>>
    /\ UNCHANGED funVars

\* self.connected = True, and the return to Bot.start
SetConnected ==
    /\ pc = "logged"
    /\ connected' = TRUE
    /\ pc' = "join"
    /\ joined' = 0
    /\ UNCHANGED <<PREFIX, prefix, auth, channels, history, callbacks,
                   commands_help, message, iter, di_used, threads>>
    /\ UNCHANGED netVars
    /\ UNCHANGED funVars

\* the join loop left after its first pass
JoinFirstOnly ==
    /\ pc = "join"
    /\ joined < Len(channels)
    /\ MainDoes(<<Written("main", <<"JOIN", SP, channels[joined + 1]>>)>>)
    /\ joined' = joined + 1
    /\ pc' = "receive"
    /\ UNCHANGED <<net, served, readerOn, pending, inbox>>
    /\ UNCHANGED <<connected, PREFIX, prefix, auth, channels, history, callbacks,
                   commands_help, message, iter, di_used, threads>>
    /\ UNCHANGED funVars

\* one pass of for channel in self.channels: self.irc.join(channel)
Join ==
    /\ pc = "join"
    /\ joined < Len(channels)
    /\ MainDoes(<<Written("main", <<"JOIN", SP, channels[joined + 1]>>)>>)
    /\ joined' = joined + 1
    /\ pc' = IF joined + 1 = Len(channels) THEN "receive" ELSE "join"
    /\ UNCHANGED <<net, served, readerOn, pending, inbox>>
    /\ UNCHANGED <<connected, PREFIX, prefix, auth, channels, history, callbacks,
                   commands_help, message, iter, di_used, threads>>
    /\ UNCHANGED funVars

\* " PRIVMSG " in message
IsPrivmsg(raw) == Contains(raw, <<SP, "PRIVMSG", SP>>)

\* one pass of the while loop of IRC.receive: a get, and the return of the
\* Message when the line is a PRIVMSG line and the Message is true
Receive ==
    /\ pc = "receive"
    /\ inbox # <<>>
    /\ inbox' = Tail(inbox)
    /\ MainDoes(<<Ev("receive", "main", Head(inbox))>>)
    /\ IF IsPrivmsg(Head(inbox)) /\ Truth(Message(Head(inbox)))
       THEN message' = Message(Head(inbox)) /\ pc' = "history"
       ELSE UNCHANGED <<message, pc>>
    /\ UNCHANGED <<net, served, readerOn, pending>>
    /\ UNCHANGED <<connected, PREFIX, prefix, auth, channels, history, callbacks,
                   commands_help, joined, iter, di_used, threads>>
    /\ UNCHANGED funVars

\* self.history.add(message): Bot.history is the limit argument as given,
\* and only a History has an add method (an int raises AttributeError, which
\* ends Bot.start); then the iterator of self.callbacks.values() is made
AddHistory ==
    /\ pc = "history"
    /\ IF history.type = "History"
       THEN /\ history' = [history EXCEPT !.val = HistoryAdd(history.val, message)]
            /\ MainDoes(<<Ev("dispatch", "main", message)>>)
            /\ pc' = "dispatch"
       ELSE /\ pc' = "dead"
            /\ UNCHANGED <<history, wire, rlog, mlog>>
    /\ iter' = 0
    /\ di_used' = Len(callbacks)
    /\ UNCHANGED <<net, served, readerOn, pending, inbox>>
    /\ UNCHANGED <<connected, PREFIX, prefix, auth, channels, callbacks,
                   commands_help, joined, message, threads>>
    /\ UNCHANGED funVars

\* Command.__call__(msg, *args): the handler runs; the model records the call
\* and the handler's reply to message.to
Call(callback, m, args) ==
    <<Ev("call", "main", [name |-> callback.name, message |-> m, args |-> args])>>
        \o BotSend(m.to, callback.func.reply)

\* the body of for callback in self.callbacks.values(), lines 367-383
DispatchOne(callback, m, globalPrefix) ==
    IF ~Matches(callback, m, globalPrefix) THEN <<>>
    ELSE IF callback.cmnd_type = 0 THEN Call(callback, m, <<>>)
    ELSE IF callback.cmnd_type = 1
    THEN LET tokens == Parse(m.text)
             args == CheckArgs(callback.func, Slice(tokens, 1, Len(tokens)))
         IN  IF args.type = "list" THEN Call(callback, m, args.val)
             ELSE BotSend(m.to, <<ERREUR>>)
    ELSE <<>>

\* the call of the handler wrapped in try/except: an exception is swallowed
DoesCaught(callback, m, globalPrefix) ==
    IF \E k \in 1..Len(DispatchOne(callback, m, globalPrefix)) :
           DispatchOne(callback, m, globalPrefix)[k].op = "call"
    THEN (IF callback.func.does = "raise" THEN "return" ELSE callback.func.does)
    ELSE "skip"

\* what the handler of the callback does when the body of the loop runs for
\* the message: "skip" when the body does not call it
Does(callback, m, globalPrefix) ==
    IF \E k \in 1..Len(DispatchOne(callback, m, globalPrefix)) :
           DispatchOne(callback, m, globalPrefix)[k].op = "call"
    THEN callback.func.does
    ELSE "skip"

\* one step of for callback in self.callbacks.values(): the iterator's
\* __next__, which raises RuntimeError when the dict has not the size it had
\* when the iterator was made and ends the loop after the last value, and
\* the body of the loop.  The dict is only ever made smaller while the loop
\* runs, so the size is the same exactly when the dict is untouched.
Dispatch ==
    /\ pc = "dispatch"
    /\ IF Len(callbacks) # di_used
       THEN /\ pc' = "dead"
            /\ UNCHANGED <<callbacks, commands_help, iter, wire, rlog, mlog>>
       ELSE IF iter >= Len(callbacks)
       THEN /\ pc' = "receive"
            /\ UNCHANGED <<callbacks, commands_help, iter, wire, rlog, mlog>>
       ELSE LET callback == callbacks[iter + 1]
                does == Does(callback, message, PREFIX)
                after == IF does = "remove"
                         THEN RemoveCommand(callbacks, commands_help, callback.func.target)
                         ELSE [callbacks |-> callbacks, commands_help |-> commands_help,
                               raised |-> FALSE]
            IN  /\ MainDoes(DispatchOne(callback, message, PREFIX))
                /\ iter' = iter + 1
                /\ callbacks' = after.callbacks
                /\ commands_help' = after.commands_help
                /\ pc' = IF does = "block" THEN "blocked"
                         ELSE IF does = "raise" \/ after.raised THEN "dead"
                         ELSE "dispatch"
    /\ UNCHANGED <<net, served, readerOn, pending, inbox>>
    /\ UNCHANGED <<connected, PREFIX, prefix, auth, channels, history, joined, message,
                   di_used, threads>>
    /\ UNCHANGED funVars

\* the socket delivers whole lines: a read ends at a line terminator
LineEnds == {n \in 1..Len(net) : net[n] = CRLF}

Next ==
    \/ \E l \in Lines : ServerSend(l)
    \/ \E n \in LineEnds : Recv(n)
    \/ Handle
    \/ \E c \in Commands : AddCommand(c, FALSE)
    \/ Start
    \/ SendUser
    \/ SendNick
    \/ WaitLogin
    \/ SetConnected
    \/ Join
    \/ Receive
    \/ AddHistory
    \/ Dispatch

Spec == Init /\ [][Next]_vars

----------------------------------------------------------------------------
(* Specifications of single functions: the input is drawn in the initial   *)
(* state and one action applies the function.  The connection and the bot  *)
(* stay as constructed.                                                    *)

\* a bot that is never started
Parked(limit) ==
    /\ InitNet
    /\ InitBot(<<>>, <<>>, <<>>, limit)

RECURSIVE SeqsUpTo(_, _)
\* the sequences over S of length at most n
SeqsUpTo(S, n) ==
    IF n = 0 THEN {<<>>}
    ELSE LET shorter == SeqsUpTo(S, n - 1) IN
         shorter \cup {Append(q, x) : q \in shorter, x \in S}

SeqsOfLen(S, n) == {q \in SeqsUpTo(S, n) : Len(q) = n}

NoResult == [type |-> "pending", val |-> 0]

(* --- the predicate of a Named rule --- *)

TextAtoms == {"!", "p", "x", SP}
NamedNames == {<<"p">>, <<"p", "x">>}
NamedAliases == {<<>>, << <<"p">> >>, << <<"p", "x">> >>}
NamedPrefixes == {<<>>, <<"!">>}

InitNamed ==
    /\ InitNet
    /\ \E p \in NamedPrefixes : InitBot(p, <<>>, <<>>, PyInt(DefaultLimit))
    /\ arg \in [name : NamedNames, alias : NamedAliases,
                text : SeqsUpTo(TextAtoms, MaxTextLen)]
    /\ res = NoResult

\* the rule is built by command(name, alias) and its events are run on a
\* message with the text
ApplyNamed ==
    /\ res = NoResult
    /\ LET rule == CommandDeco(arg.name, arg.alias, FuncLog)
           m == [author |-> <<"alice">>, to |-> <<"#room">>, text |-> arg.text]
       IN  res' = [type |-> "bool", val |-> Matches(rule, m, PREFIX)]
    /\ UNCHANGED arg
    /\ UNCHANGED netVars
    /\ UNCHANGED botVars

NextNamed == ApplyNamed

SpecNamed == InitNamed /\ [][NextNamed]_vars

(* --- check_args --- *)

ArgTypes == {"int", "str"}
ArgDefaults == {PyStr(<<"hi">>), PyInt(0)}
ArgTokens == {<<"5">>, <<"abc">>}

\* the declarations: n typed parameters, the last d of them with a default
Declarations ==
    UNION {[annotations : SeqsOfLen(ArgTypes, n), defaults : SeqsOfLen(ArgDefaults, d)] :
           n \in 0..MaxParams, d \in 0..MaxParams} 

InitArgs ==
    /\ Parked(PyInt(DefaultLimit))
    /\ \E f \in Declarations, t \in SeqsUpTo(ArgTokens, MaxTokens) :
          /\ Len(f.defaults) <= Len(f.annotations)
          /\ arg = [func |-> f, tokens |-> t]
    /\ res = NoResult

ApplyArgs ==
    /\ res = NoResult
    /\ res' = CheckArgs(arg.func, arg.tokens)
    /\ UNCHANGED arg
    /\ UNCHANGED netVars
    /\ UNCHANGED botVars

NextArgs == ApplyArgs

SpecArgs == InitArgs /\ [][NextArgs]_vars

(* --- History --- *)

Elements == {Message(LineCmdPing), Message(LineAddX)}

\* History(limit); arg is the sequence of everything added so far
InitHistory ==
    /\ InitNet
    /\ \E limit \in 0..MaxLimit :
          InitBot(<<>>, <<>>, <<>>, [type |-> "History", val |-> NewHistory(limit)])
    /\ arg = <<>>
    /\ res = NoResult

\* history.add(elmnt)
Add(elmnt) ==
    /\ Len(arg) < MaxInserted
    /\ history' = [history EXCEPT !.val = HistoryAdd(history.val, elmnt)]
    /\ arg' = Append(arg, elmnt)
    /\ UNCHANGED res
    /\ UNCHANGED <<connected, pc, PREFIX, prefix, auth, channels, callbacks,
                   commands_help, joined, message, iter, di_used, threads>>
    /\ UNCHANGED netVars

NextHistory == \E e \in Elements : Add(e)

SpecHistory == InitHistory /\ [][NextHistory]_vars

(* --- the registry --- *)

RegistryCommands == {CmdPing, CmdLog, EveryTick}
RegistryNames == {<<"ping">>, <<"log">>, <<"tick">>, <<"help">>, <<"auto_help">>}

\* @channel("#room") on auto_help: the rule is named after its function
CmdAuto == ChannelDeco(<<"#room">>, FuncAuto)

\* the argument lists of the add_commands calls
RegistryBatches == {<<CmdPing, CmdLog>>, <<CmdAuto, EveryTick>>}

\* the two mappings of the bot
Registry == [callbacks |-> callbacks, commands_help |-> commands_help]

\* a bot that is not started; arg is the last remove_command call: its
\* argument and the mappings before and after it; res is how it ended
InitRegistry ==
    /\ InitNet
    /\ InitBot(<<"!">>, <<>>, <<"#room">>, PyInt(DefaultLimit))
    /\ arg = [name |-> <<>>, before |-> Registry, after |-> Registry]
    /\ res = NoResult

\* Bot.remove_command(command_name), called before Bot.start
Remove(command_name) ==
    /\ pc = "created"
    /\ LET after == RemoveCommand(callbacks, commands_help, command_name) IN
        /\ callbacks' = after.callbacks
        /\ commands_help' = after.commands_help
        /\ arg' = [name |-> command_name, before |-> Registry,
                   after |-> [callbacks |-> after.callbacks,
                              commands_help |-> after.commands_help]]
        /\ res' = IF after.raised THEN [type |-> "KeyError", val |-> 0] ELSE PyNone
    /\ UNCHANGED <<connected, pc, PREFIX, prefix, auth, channels, history, joined,
                   message, iter, di_used, threads>>
    /\ UNCHANGED netVars

\* the for loop of add_commands from the bot as it is
RECURSIVE AddAll(_, _, _)
AddAll(bot, commands, add_to_help) ==
    IF commands = <<>> THEN bot
    ELSE AddAll(AddTo(bot, Head(commands), add_to_help), Tail(commands), add_to_help)

\* Bot.add_commands(*commands), called before Bot.start: add_to_help is
\* "auto_help" in [cmnd.name for cmnd in commands]
AddCommands(commands) ==
    /\ pc = "created"
    /\ Len(threads) < MaxThreads
    /\ LET add_to_help == \E i \in 1..Len(commands) : commands[i].name = <<"auto_help">>
           after == AddAll([callbacks |-> callbacks, commands_help |-> commands_help,
                            threads |-> threads], commands, add_to_help)
       IN  /\ callbacks' = after.callbacks
           /\ threads' = after.threads
           /\ commands_help' = after.commands_help
    /\ UNCHANGED <<connected, pc, PREFIX, prefix, auth, channels, history, joined,
                   message, iter, di_used>>
    /\ UNCHANGED netVars
    /\ UNCHANGED funVars

NextRegistry ==
    \/ \E c \in RegistryCommands, add_to_help \in BOOLEAN : AddCommand(c, add_to_help)
    \/ \E cs \in RegistryBatches : AddCommands(cs)
    \/ \E n \in RegistryNames : Remove(n)

SpecRegistry == InitRegistry /\ [][NextRegistry]_vars

(* --- the periodic routines, and rules removed while the bot runs --- *)

\* @channel("#room") on drop and on hang
CmdDrop == ChannelDeco(<<"#room">>, FuncDrop)
CmdHang == ChannelDeco(<<"#room">>, FuncHang)

Added(command, add_to_help) == [command |-> command, add_to_help |-> add_to_help]

\* what the application registers before Bot.start, as its add_command calls
Setups ==
    {<<Added(EveryTick, FALSE), Added(EveryPoll, FALSE),
       Added(CmdPing, TRUE), Added(CmdDrop, FALSE)>>,
     <<Added(EveryTick, FALSE), Added(EveryPurge, FALSE),
       Added(CmdPing, FALSE), Added(CmdLog, FALSE)>>,
     <<Added(EveryTick, FALSE), Added(CmdHang, FALSE)>>}

\* the bot after the add_command calls of a setup
RECURSIVE Configured(_, _)
Configured(bot, setup) ==
    IF setup = <<>> THEN bot
    ELSE Configured(AddTo(bot, Head(setup).command, Head(setup).add_to_help), Tail(setup))

\* Bot(...) with a History as limit, then the setup: the threads of the
\* periodic rules are running, Bot.start is not called yet
InitSetup(setups) ==
    /\ InitNet
    /\ PREFIX = <<"!">>
    /\ prefix = <<"!">>
    /\ connected = FALSE
    /\ history = [type |-> "History", val |-> NewHistory(2)]
    /\ channels = << <<"#room">> >>
    /\ auth = <<>>
    /\ \E setup \in setups :
          LET bot == Configured([callbacks |-> <<>>, commands_help |-> <<>>,
                                 threads |-> <<>>], setup)
          IN  /\ callbacks = bot.callbacks
              /\ commands_help = bot.commands_help
              /\ threads = bot.threads
    /\ pc = "created"
    /\ joined = 0
    /\ message = NoMessage
    /\ iter = 0
    /\ di_used = 0
    /\ arg = <<>>
    /\ res = <<>>

InitSched == InitSetup(Setups)

Min(a, b) == IF a < b THEN a ELSE b

\* an exception raised by a routine ends every thread of Bot.threads
InvokeFatal(t) ==
    /\ t \in 1..Len(threads)
    /\ threads[t].at = "call"
    /\ \E raised \in (IF threads[t].command.func.does = "flaky" THEN BOOLEAN ELSE {FALSE}) :
          threads' = [u \in 1..Len(threads) |->
                         [command |-> threads[u].command,
                          at |-> IF raised THEN "dead"
                                 ELSE IF u = t THEN "sleep" ELSE threads[u].at,
                          calls |-> IF u = t THEN Min(threads[u].calls + 1, MaxCalls)
                                    ELSE threads[u].calls,
                          args |-> IF u = t THEN <<"bot">> ELSE threads[u].args]]
    /\ UNCHANGED <<connected, pc, PREFIX, prefix, auth, channels, history, callbacks,
                   commands_help, joined, message, iter, di_used>>
    /\ UNCHANGED netVars
    /\ UNCHANGED funVars

\* what a routine writes: bot.send("#room", reply), from its thread
RoutineSend(func) ==
    LET lines == SplitLines(func.reply) IN
    [i \in 1..Len(lines) |->
        Written("thread", <<"PRIVMSG", SP, "#room", SP, ":">> \o lines[i])]

\* command.func(bot) in timed_func: the routine runs with the bot as its
\* only argument; an exception it raises ends the thread.  The calls of a
\* routine that writes are followed up to MaxCalls.
Invoke(t) ==
    /\ t \in 1..Len(threads)
    /\ threads[t].at = "call"
    /\ RoutineSend(threads[t].command.func) # <<>> => threads[t].calls < MaxCalls
    /\ wire' = wire \o RoutineSend(threads[t].command.func)
    /\ LET func == threads[t].command.func
           after == IF func.does = "remove"
                    THEN RemoveCommand(callbacks, commands_help, func.target)
                    ELSE [callbacks |-> callbacks, commands_help |-> commands_help,
                          raised |-> func.does = "raise"]
       IN  /\ callbacks' = after.callbacks
           /\ commands_help' = after.commands_help
           /\ \E raised \in (IF func.does = "flaky" THEN BOOLEAN ELSE {after.raised}) :
                 threads' = [threads EXCEPT ![t] =
                                [command |-> @.command,
                                 at |-> IF raised THEN "dead" ELSE "sleep",
                                 calls |-> Min(@.calls + 1, MaxCalls),
                                 args |-> <<"bot">>]]
    /\ UNCHANGED <<connected, pc, PREFIX, prefix, auth, channels, history, joined,
                   message, iter, di_used>>
    /\ UNCHANGED <<net, served, readerOn, pending, inbox, rlog, mlog>>
    /\ UNCHANGED funVars

\* a sleep that ends only when a line is waiting in the inbox
WakeOnTraffic(t) ==
    /\ t \in 1..Len(threads)
    /\ threads[t].at = "sleep"
    /\ inbox # <<>>
    /\ threads' = [threads EXCEPT ![t].at = "call"]
    /\ UNCHANGED <<connected, pc, PREFIX, prefix, auth, channels, history, callbacks,
                   commands_help, joined, message, iter, di_used>>
    /\ UNCHANGED netVars
    /\ UNCHANGED funVars

\* time.sleep(command.events) returns, and the while loop goes round
Wake(t) ==
    /\ t \in 1..Len(threads)
    /\ threads[t].at = "sleep"
    /\ threads' = [threads EXCEPT ![t].at = "call"]
    /\ UNCHANGED <<connected, pc, PREFIX, prefix, auth, channels, history, callbacks,
                   commands_help, joined, message, iter, di_used>>
    /\ UNCHANGED netVars
    /\ UNCHANGED funVars

SchedLines == {LineLogin, LineCmdPing}

NextSched ==
    \/ \E l \in SchedLines : ServerSend(l)
    \/ \E n \in LineEnds : Recv(n)
    \/ Handle
    \/ Start
    \/ SendUser
    \/ SendNick
    \/ WaitLogin
    \/ SetConnected
    \/ Join
    \/ Receive
    \/ AddHistory
    \/ Dispatch
    \/ \E t \in 1..MaxThreads : Invoke(t)
    \/ \E t \in 1..MaxThreads : Wake(t)

SpecSched == InitSched /\ [][NextSched]_vars

\* every thread of a periodic rule is scheduled again and again and its
\* sleep ends; nothing is assumed of the reader, the foreground or the server
SpecSchedThreads ==
    /\ SpecSched
    /\ \A t \in 1..MaxThreads : WF_vars(Invoke(t))
    /\ \A t \in 1..MaxThreads : WF_vars(Wake(t))

(* --- the handshake --- *)

HandshakeLines == {LinePing, LineAuth, LineLogin}

\* Bot(irc_params, auth) for both forms of auth
InitHandshake ==
    /\ InitNet
    /\ \E a \in Auths : InitBot(<<"!">>, a, <<"#room">>, PyInt(DefaultLimit))
    /\ arg = <<>>
    /\ res = <<>>

\* IRC.connexion, up to its return
NextHandshake ==
    \/ \E l \in HandshakeLines : ServerWrites(l, MaxLoopLines)
    \/ \E n \in LineEnds : Recv(n)
    \/ Handle
    \/ Start
    \/ SendUser
    \/ SendNick
    \/ WaitAuth
    \/ SendAuth
    \/ WaitLogin
    \/ SetConnected

SpecHandshake == InitHandshake /\ [][NextHandshake]_vars

(* --- the loop with a rule or two, on three lines --- *)

LoopSetups == {<<Added(CmdHang, FALSE)>>, <<Added(CmdPing, FALSE)>>,
               <<Added(CmdSeen, FALSE)>>}
LoopLines == {LinePing, LineLogin, LineCmdPing, LineUnparsed}

InitLoop == InitSetup(LoopSetups)

NextLoop ==
    \/ \E l \in LoopLines : ServerWrites(l, MaxLoopLines)
    \/ \E n \in LineEnds : Recv(n)
    \/ Handle
    \/ Start
    \/ SendUser
    \/ SendNick
    \/ WaitLogin
    \/ SetConnected
    \/ Join
    \/ Receive
    \/ AddHistory
    \/ Dispatch

\* the reader thread is scheduled again and again and recv returns what has
\* arrived; nothing is assumed of the foreground or the server
SpecLoop ==
    /\ InitLoop
    /\ [][NextLoop]_vars
    /\ WF_vars(Handle)
    /\ WF_vars(\E n \in LineEnds : Recv(n))

(* --- a handler that raises --- *)

\* @channel("#room") on boom
CmdBoom == ChannelDeco(<<"#room">>, FuncBoom)

\* boom is registered before log; one periodic routine runs beside the loop
FaultSetups == {<<Added(EveryTick, FALSE), Added(CmdBoom, FALSE), Added(CmdLog, FALSE)>>}
FaultLines == {LineLogin, LineCmdPing}

InitFault == InitSetup(FaultSetups)

NextFault ==
    \/ \E l \in FaultLines : ServerWrites(l, MaxLoopLines)
    \/ \E n \in LineEnds : Recv(n)
    \/ Handle
    \/ Start
    \/ SendUser
    \/ SendNick
    \/ WaitLogin
    \/ SetConnected
    \/ Join
    \/ Receive
    \/ AddHistory
    \/ Dispatch
    \/ \E t \in 1..MaxThreads : Invoke(t)
    \/ \E t \in 1..MaxThreads : Wake(t)

\* the reader thread and the threads of the periodic rules are scheduled
\* again and again; nothing is assumed of the foreground or the server
SpecFault ==
    /\ InitFault
    /\ [][NextFault]_vars
    /\ WF_vars(Handle)
    /\ WF_vars(\E n \in LineEnds : Recv(n))
    /\ \A t \in 1..MaxThreads : WF_vars(Invoke(t))
    /\ \A t \in 1..MaxThreads : WF_vars(Wake(t))

(* --- a second bot in the same process --- *)

\* Bot(irc_params, prefix=p) constructed after the bot of the model:
\* global PREFIX; PREFIX = prefix.  Its attributes are its own, the module
\* global is the one the rules of every bot read.
OtherBot(p) ==
    /\ PREFIX' = p
    /\ UNCHANGED <<connected, pc, prefix, auth, channels, history, callbacks,
                   commands_help, joined, message, iter, di_used, threads>>
    /\ UNCHANGED netVars
    /\ UNCHANGED funVars

OtherPrefixes == {<<>>, <<"?">>}

LinePlainPing == Privmsg("alice", "#room", <<"ping">>)
PrefixSetups == {<<Added(CmdPing, FALSE)>>}
PrefixLines == {LineLogin, LineCmdPing, LinePlainPing}

InitPrefix == InitSetup(PrefixSetups)

NextPrefix ==
    \/ \E l \in PrefixLines : ServerWrites(l, MaxLoopLines)
    \/ \E n \in LineEnds : Recv(n)
    \/ Handle
    \/ \E p \in OtherPrefixes : OtherBot(p)
    \/ Start
    \/ SendUser
    \/ SendNick
    \/ WaitLogin
    \/ SetConnected
    \/ Join
    \/ Receive
    \/ AddHistory
    \/ Dispatch

SpecPrefix == InitPrefix /\ [][NextPrefix]_vars

(* --- the first lines on the connection --- *)

\* one periodic routine that writes, or none
FirstSetups == {<<Added(EveryHello, FALSE)>>, <<Added(CmdPing, FALSE)>>}
FirstLines == {LinePing, LineLogin}

InitFirst == InitSetup(FirstSetups)

\* the threads of the periodic rules, the reader and IRC.connexion
NextFirst ==
    \/ \E l \in FirstLines : ServerWrites(l, MaxLoopLines)
    \/ \E n \in LineEnds : Recv(n)
    \/ Handle
    \/ Start
    \/ SendUser
    \/ SendNick
    \/ WaitLogin
    \/ SetConnected
    \/ \E t \in 1..MaxThreads : Invoke(t)
    \/ \E t \in 1..MaxThreads : Wake(t)

SpecFirst == InitFirst /\ [][NextFirst]_vars

(* --- the reader on a stream cut anywhere --- *)

\* recv(4096) returns what has arrived, up to 4096 bytes: the read may end
\* anywhere in the stream.  The foreground starts the reader and is not
\* followed further.
InitReader ==
    /\ InitNet
    /\ InitBot(<<"!">>, <<>>, <<"#room">>, PyInt(DefaultLimit))
    /\ arg = <<>>
    /\ res = <<>>

\* the server's lines for the reader alone, short ones: a stream of n atoms
\* can be cut into reads in 2^(n-1) ways
LineWelcome == <<":", "srv", SP, "001">>
ReaderLines == {LinePing, LineWelcome}

NextReader ==
    \/ \E l \in ReaderLines : ServerSend(l)
    \/ \E n \in 1..Len(net) : Recv(n)
    \/ Handle
    \/ Start

SpecReader == InitReader /\ [][NextReader]_vars

----------------------------------------------------------------------------
(* Properties *)

IsPing(line) == StartsWith(line, <<"PING">>)
\* the event is the write of this line
Sent(e, line) == e.op = "send" /\ e.data = line
IsTake(e) == e.op \in {"waitfor", "receive"}
ByReader(e) == e.by = "reader"

NamesOf(a) == {a.alias[i] : i \in 1..Len(a.alias)} \cup {a.name}

\* text is pc, or pc followed by a space and anything
Fits(text, pc0) ==
    /\ Len(text) >= Len(pc0)
    /\ \A i \in 1..Len(pc0) : text[i] = pc0[i]
    /\ Len(text) = Len(pc0) \/ text[Len(pc0) + 1] = SP

\* C3 as stated: for every name or alias C of the rule, the predicate is
\* true iff the text is P+C or starts with P+C and a space.
C3_EveryName ==
    res.type = "bool" =>
        \A c \in NamesOf(arg) : res.val = Fits(arg.text, PREFIX \o c)

\* C3, amended: the predicate is true iff for some name or alias C of the
\* rule the text is P+C or starts with P+C and a space; for a rule whose
\* only name is C, P+C+"x" does not match and a text that does not start
\* with P+C does not match.
C3_SomeName ==
    res.type = "bool" =>
        /\ res.val = (\E c \in NamesOf(arg) : Fits(arg.text, PREFIX \o c))
        /\ NamesOf(arg) = {arg.name} =>
              /\ arg.text = PREFIX \o arg.name \o <<"x">> => ~res.val
              /\ ~StartsWith(arg.text, PREFIX \o arg.name) => ~res.val

\* a text that matches through an alias and not through the name, and one
\* that matches by the space rule
C3_Witness ==
    /\ res.type = "bool"
    /\ res.val
    /\ \/ arg.name = <<"p">> /\ arg.text = PREFIX \o <<"p", "x">>
       \/ arg.text = PREFIX \o arg.name \o <<SP, "x">>

\* the reference algorithm of argument coercion
RefConverts(token, type) == type = "str" \/ IntParse(token).ok
RefValue(token, type) == IF type = "str" THEN PyStr(token) ELSE PyInt(IntParse(token).val)
RefRejected(f, t, i) ==
    /\ ~(i <= Len(t) /\ RefConverts(t[i], f.annotations[i]))
    /\ i <= Len(f.annotations) - Len(f.defaults)
RefPosition(f, t, i) ==
    IF i <= Len(t) /\ RefConverts(t[i], f.annotations[i])
    THEN RefValue(t[i], f.annotations[i])
    ELSE f.defaults[i - (Len(f.annotations) - Len(f.defaults))]
RefCheck(f, t) ==
    IF \/ Len(t) < Len(f.annotations) - Len(f.defaults)
       \/ \E i \in 1..Len(f.annotations) : RefRejected(f, t, i)
    THEN PyNone
    ELSE PyList([i \in 1..Len(f.annotations) |-> RefPosition(f, t, i)])

IntStrHi == [annotations |-> <<"int", "str">>, defaults |-> <<PyStr(<<"hi">>)>>]
IntOnly == [annotations |-> <<"int">>, defaults |-> <<>>]

\* C6: check_args gives what the reference algorithm gives: a rejection, or
\* exactly one value per declared parameter; and the three examples.
C6_CheckArgs ==
    res # NoResult =>
        /\ res = RefCheck(arg.func, arg.tokens)
        /\ res.type \in {"list", "NoneType"}
        /\ res.type = "list" =>
              /\ Len(res.val) = Len(arg.func.annotations)
              /\ \A i \in 1..Len(res.val) : res.val[i].type \in {"int", "str"}
        /\ (arg.func = IntStrHi /\ arg.tokens = << <<"5">> >>)
              => res = PyList(<<PyInt(5), PyStr(<<"hi">>)>>)
        /\ (arg.func = IntStrHi /\ arg.tokens = <<>>) => res = PyNone
        /\ (arg.func = IntOnly /\ arg.tokens = << <<"abc">> >>) => res = PyNone

\* a token that does not convert is replaced by the default of its
\* position, next to a converted one, with a surplus token ignored
C6_Witness ==
    /\ arg.func = [annotations |-> <<"int", "int">>, defaults |-> <<PyInt(0)>>]
    /\ arg.tokens = << <<"5">>, <<"abc">>, <<"5">> >>
    /\ res = PyList(<<PyInt(5), PyInt(0)>>)

\* C8: the History holds the last min(limit, number added) elements added,
\* in the order they were added, and never more than limit.
C8_LastN ==
    LET c == history.val.content
        n == history.val.limit
        k == Len(arg)
        m == IF k < n THEN k ELSE n
    IN  /\ Len(c) <= n
        /\ Len(c) = m
        /\ \A i \in 1..m : c[i] = arg[k - m + i]

\* a full History has evicted twice
C8_Witness ==
    /\ Len(arg) >= history.val.limit + 2
    /\ Len(history.val.content) = history.val.limit

UserLine == <<"USER", SP>> \o Nick \o <<SP, "*", SP, "*", SP, ":">> \o Nick
NickLine == <<"NICK", SP>> \o Nick

\* USER, then NICK were written, then waitfor took a logged-in line
LoginTaken ==
    \E i \in 1..Len(mlog), j \in 1..Len(mlog), k \in 1..Len(mlog) :
        /\ i < j /\ j < k
        /\ Sent(mlog[i], UserLine)
        /\ Sent(mlog[j], NickLine)
        /\ mlog[k].op = "waitfor" /\ Contains(mlog[k].data, <<LOGGED>>)

\* a logged-in line has reached the reader
LoginArrived ==
    \E i \in 1..Len(rlog) : rlog[i].op = "handle" /\ Contains(rlog[i].data, <<LOGGED>>)

\* C10: connected implies that USER and NICK are on the wire, in that
\* order, and that a logged-in line was taken from the inbox after them; as
\* long as no such line has arrived, connexion has not returned and
\* connected is false.
C10_Connected ==
    /\ connected =>
          /\ LoginTaken
          /\ \E i \in 1..Len(wire), j \in 1..Len(wire) :
                i < j /\ wire[i].data = UserLine /\ wire[j].data = NickLine
    /\ ~LoginArrived =>
          /\ ~connected
          /\ pc \notin {"logged", "join", "receive", "history", "dispatch"}

C10_Witness == connected /\ pc = "receive"

(* --- the receive-loop --- *)

\* the positions of the trace at which receive returned a Message
Returned == {i \in 1..Len(mlog) : mlog[i].op = "receive" /\ IsPrivmsg(mlog[i].data)}

\* the Message returned at position i
MessageAt(i) == Message(mlog[i].data)

\* the loop is through with the message returned at i: a later message
\* was returned, or the loop is back in receive, or it has ended
Through(i) == (\E j \in Returned : j > i) \/ pc \in {"receive", "dead"}

\* the last position of the pass of the loop that starts at i
RECURSIVE PassEnd(_)
PassEnd(i) ==
    IF i < Len(mlog) /\ mlog[i + 1].op # "receive" THEN PassEnd(i + 1) ELSE i

\* what the foreground did for the message returned at i
Pass(i) == SubSeq(mlog, i + 1, PassEnd(i))

IsCall(e) == e.op = "call"
CallsIn(events) ==
    LET calls == SelectSeq(events, IsCall) IN
    [k \in 1..Len(calls) |-> calls[k].data.name]

\* every predicate of the rule returns true for the message
EveryPredicate(c, m) == \A k \in 1..Len(c.events) : Event(c.events[k], m, PREFIX)

\* the rule is Named and argument coercion rejects the tokens of the message
Rejects(c, m) ==
    /\ c.cmnd_type = 1
    /\ CheckArgs(c.func, Slice(Parse(m.text), 1, Len(Parse(m.text)))) = PyNone

ErrorLine(m) == <<"PRIVMSG", SP>> \o m.to \o <<SP, ":", ERREUR>>
PongLine == <<"PRIVMSG", SP, "#room", SP, ":", "pong">>

\* how many times the line is written in the events
Count(events, line) == Cardinality({k \in 1..Len(events) : Sent(events[k], line)})

\* C2: with prefix "!" and the rule ping registered, once the loop is
\* through with the message of the line :alice PRIVMSG #room :!ping, the
\* handler of ping was called for it and PRIVMSG #room :pong is on the wire.
C2_PingPong ==
    \A i \in Returned :
        (/\ mlog[i].data = LineCmdPing
         /\ Through(i)
         /\ prefix = <<"!">>
         /\ \E k \in 1..Len(callbacks) : callbacks[k] = CmdPing)
            => /\ \E k \in 1..Len(Pass(i)) :
                    /\ IsCall(Pass(i)[k])
                    /\ Pass(i)[k].data.name = <<"ping">>
                    /\ Pass(i)[k].data.message = MessageAt(i)
               /\ \E k \in 1..Len(Pass(i)) : Sent(Pass(i)[k], PongLine)
               /\ \E k \in 1..Len(wire) : Sent(wire[k], PongLine)

\* C4: once the loop is through with a message, the handler of a registered
\* rule was called for it iff every predicate of the rule is true of it.
C4_CalledIffAllTrue ==
    \A i \in Returned :
        Through(i) =>
            \A k \in 1..Len(callbacks) :
                (\E n \in 1..Len(CallsIn(Pass(i))) : CallsIn(Pass(i))[n] = callbacks[k].name)
                    <=> EveryPredicate(callbacks[k], MessageAt(i))

\* the rules to call for a message, in registration order
RECURSIVE ToCall(_, _)
ToCall(cbs, m) ==
    IF cbs = <<>> THEN <<>>
    ELSE (IF EveryPredicate(cbs[1], m) /\ ~Rejects(cbs[1], m) THEN <<cbs[1].name>> ELSE <<>>)
             \o ToCall(Tail(cbs), m)

\* C5: once the loop is through with a message, the handlers called for it
\* are those of the rules that match (and whose arguments are accepted), each
\* once, in registration order.
C5_AllInOrder ==
    \A i \in Returned :
        Through(i) => CallsIn(Pass(i)) = ToCall(callbacks, MessageAt(i))

\* C7: once the loop is through with a message that a Named rule matches and
\* whose tokens are rejected, the handler was not called, one error PRIVMSG
\* per rejecting rule went to the destination of the message, and the loop
\* has not ended.
C7_RejectReplied ==
    \A i \in Returned :
        LET m == MessageAt(i)
            rejecting == {k \in 1..Len(callbacks) :
                             EveryPredicate(callbacks[k], m) /\ Rejects(callbacks[k], m)}
        IN  (Through(i) /\ rejecting # {}) =>
                /\ \A k \in rejecting :
                      \A n \in 1..Len(CallsIn(Pass(i))) :
                          CallsIn(Pass(i))[n] # callbacks[k].name
                /\ Count(Pass(i), ErrorLine(m)) = Cardinality(rejecting)
                /\ pc # "dead"

\* the Messages receive has returned, in order
Received ==
    LET took == SelectSeq(mlog, LAMBDA e : e.op = "receive" /\ IsPrivmsg(e.data)) IN
    [k \in 1..Len(took) |-> Message(took[k].data)]

\* C9: every Message returned by receive is the newest entry of the History
\* when its dispatch starts, the loop goes on to dispatch it, and the History
\* holds nothing but the last returned Messages.
C9_HistoryFed ==
    LET added == IF pc = "history" THEN SubSeq(Received, 1, Len(Received) - 1)
                 ELSE Received
        kept == IF Len(added) < history.val.limit THEN Len(added) ELSE history.val.limit
    IN  Len(added) > 0 =>
            /\ history.type = "History"
            /\ history.val.content = SubSeq(added, Len(added) - kept + 1, Len(added))
            /\ pc # "dead"

(* --- the handshake with auth, the start of the bot, the inbox --- *)

AuthLine == <<"AUTH", SP, auth[1], ":", auth[2]>>

\* the positions of the foreground's trace at which waitfor took a login prompt
PromptTaken == {i \in 1..Len(mlog) : mlog[i].op = "waitfor" /\ IsAuthPrompt(mlog[i].data)}

\* C11: with an auth pair, AUTH username:password is written only after
\* USER, NICK and the taking of a login prompt; once the prompt is taken the
\* handshake goes on to write it and does not end; and a logged-in line
\* taken after it makes connected true.
C11_AuthHandshake ==
    auth # <<>> =>
        /\ \A k \in 1..Len(mlog) :
              Sent(mlog[k], AuthLine) =>
                  \E i \in 1..Len(mlog), j \in 1..Len(mlog), p \in PromptTaken :
                      /\ i < j /\ j < p /\ p < k
                      /\ Sent(mlog[i], UserLine)
                      /\ Sent(mlog[j], NickLine)
        /\ (PromptTaken # {} /\ pc # "auth") =>
              /\ pc # "dead"
              /\ \E k \in 1..Len(mlog) : Sent(mlog[k], AuthLine)
        /\ (\E p \in PromptTaken, k \in 1..Len(mlog) :
                p < k /\ mlog[k].op = "waitfor" /\ IsLoggedIn(mlog[k].data))
              => (connected \/ pc = "logged")

JoinLines == [i \in 1..Len(channels) |-> <<"JOIN", SP, channels[i]>>]
IsJoin(e) == e.op = "send" /\ Head(e.data) = "JOIN"
Datas(events) == [k \in 1..Len(events) |-> events[k].data]

\* the positions of the foreground's trace of the first JOIN and of the
\* first line taken by receive, 0 when there is none
RECURSIVE FirstAt(_, _, _)
FirstAt(events, Test(_), from) ==
    IF from > Len(events) THEN 0
    ELSE IF Test(events[from]) THEN from
    ELSE FirstAt(events, Test, from + 1)
IsReceive(e) == e.op = "receive"

\* C12: the JOINs written are the configured channels from the first on, in
\* order, each once; they are written one after the other with nothing
\* taken from the inbox between them; none is written while connected is
\* false; receive takes its first line only after all of them; and the
\* positions of Bot.start go with connected and the JOINs written.
C12_StartOrder ==
    LET joins == Datas(SelectSeq(mlog, IsJoin))
        j1 == FirstAt(mlog, IsJoin, 1)
        r1 == FirstAt(mlog, IsReceive, 1)
    IN  /\ Len(joins) <= Len(channels)
        /\ joins = SubSeq(JoinLines, 1, Len(joins))
        /\ Len(joins) = joined
        /\ joins # <<>> => connected
        /\ j1 # 0 => \A k \in j1..(j1 + Len(joins) - 1) : IsJoin(mlog[k])
        /\ r1 # 0 => (Len(joins) = Len(channels) /\ r1 > j1 + Len(channels) - 1)
        /\ pc \in {"created", "user", "nick", "waitAuth", "auth", "waitLogin", "logged"}
              => (~connected /\ joins = <<>>)
        /\ pc = "join" => (connected /\ Len(joins) < Len(channels))
        /\ pc \in {"receive", "history", "dispatch", "blocked"}
              => (connected /\ Len(joins) = Len(channels))

\* both channels are joined and the loop has returned a message
C12_Witness ==
    /\ Len(SelectSeq(mlog, IsJoin)) = 2
    /\ \E i \in 1..Len(mlog) : mlog[i].op = "receive" /\ IsPrivmsg(mlog[i].data)

EmptyMessage == [author |-> <<>>, to |-> <<>>, text |-> <<>>]

\* C13: receive never returns a Message whose author, destination and text
\* are all empty (the line is dropped), and no handler is called with one.
C13_UnparsedDropped ==
    /\ message # EmptyMessage
    /\ \A k \in 1..Len(mlog) : IsCall(mlog[k]) => mlog[k].data.message # EmptyMessage

\* the lines the reader has put on the inbox, and the lines taken from it
IsPut(e) == e.op = "handle" /\ ~IsPing(e.data)
IsDispatch(e) == e.op = "dispatch"

\* C17: the lines taken from the inbox, followed by those still in it, are
\* the lines the reader put there, in order; and the Messages the loop has
\* passed on to dispatch are the Messages receive returned, in order, each
\* once (all but the newest while the loop is between the two).
C17_Fifo ==
    /\ Datas(SelectSeq(mlog, IsTake)) \o inbox = Datas(SelectSeq(rlog, IsPut))
    /\ Datas(SelectSeq(mlog, IsDispatch))
          = IF pc = "history" THEN SubSeq(Received, 1, Len(Received) - 1) ELSE Received

IsHandle(e) == e.op = "handle"

\* C18: every piece the reader handles is a whole line of the server, and
\* once the reader has read and handled all that was written it has handled
\* as many pieces as the server wrote lines.
C18_WholeLines ==
    /\ \A i \in 1..Len(rlog) : IsHandle(rlog[i]) => rlog[i].data \in Lines \cup ReaderLines
    /\ (readerOn /\ net = <<>> /\ pending = <<>>)
          => Len(SelectSeq(rlog, IsHandle)) = served

\* C16: a remove_command call on a name of the rule mapping ends without
\* error and leaves the name in neither mapping; a call on any other name
\* ends without error and leaves both mappings as they were.
C16_RemoveClean ==
    res.type # "pending" =>
        IF HasKey(arg.before.callbacks, arg.name)
        THEN /\ res = PyNone
             /\ ~HasKey(arg.after.callbacks, arg.name)
             /\ ~HasKey(arg.after.commands_help, arg.name)
        ELSE /\ res = PyNone
             /\ arg.after = arg.before

(* --- the periodic routines --- *)

\* the routine of thread t returns whenever it is called
Sound(t) == t <= Len(threads) /\ threads[t].command.func.does = "return"
Dead(t) == t <= Len(threads) /\ threads[t].at = "dead"
Sleeps(t) == t <= Len(threads) /\ threads[t].at = "sleep"
Calls(t) == t <= Len(threads) /\ threads[t].at = "call"

\* a thread that has not called its routine yet is about to, without a
\* sleep before; every call passes the bot and nothing else
FirstCall ==
    \A t \in 1..Len(threads) :
        /\ threads[t].calls = 0 => (threads[t].at = "call" /\ threads[t].args = <<>>)
        /\ threads[t].calls > 0 => threads[t].args = <<"bot">>

SomeDead == \E u \in 1..Len(threads) : Dead(u)

\* the step ends thread t
Dies(t) == t <= Len(threads) /\ threads[t].at # "dead" /\ threads'[t].at = "dead"

\* C15: the step in which a routine fails ends its own thread and leaves
\* the other threads, the foreground and the reader where they are; and a
\* thread whose routine returns goes on calling it after another has ended.
C15_Isolated ==
    /\ [][\A t \in 1..MaxThreads :
              Dies(t) => /\ \A u \in 1..Len(threads) : u # t => threads'[u] = threads[u]
                         /\ pc' = pc
                         /\ UNCHANGED netVars]_vars
    /\ \A t \in 1..MaxThreads : []((Sound(t) /\ SomeDead) => <>Sleeps(t))
    /\ \A t \in 1..MaxThreads : []((Sound(t) /\ SomeDead) => <>Calls(t))

\* a routine has failed, another has run twice or more, and the loop is
\* dispatching a message
C15_Witness ==
    /\ \E u \in 1..Len(threads) : Dead(u) /\ threads[u].command.func.does = "flaky"
    /\ \E t \in 1..Len(threads) : Sound(t) /\ threads[t].calls >= 2
    /\ pc = "dispatch"

PingsHandled == {i \in 1..Len(rlog) : IsHandle(rlog[i]) /\ IsPing(rlog[i].data)}

C20_LoopSurvives == ~(pc = "dead" /\ Len(callbacks) # di_used)

(* --- a fault in a handler --- *)

\* the handler called by the event raises
IsFault(e) ==
    /\ e.op = "call"
    /\ \E k \in 1..Len(callbacks) :
          callbacks[k].name = e.data.name /\ callbacks[k].func.does = "raise"

\* a handler has raised
Faulted == \E k \in 1..Len(mlog) : IsFault(mlog[k])

\* the periodic routine beside the loop (one thread) is asleep, is about to
\* be called
RoutineSleeps == \A t \in 1..Len(threads) : Sound(t) => Sleeps(t)
RoutineCalls == \A t \in 1..Len(threads) : Sound(t) => Calls(t)

\* C21: the call of a handler that raises is the last thing the foreground
\* does: Bot.start has ended, no handler is called after it, for the same
\* message or a later one, and nothing more is taken from the inbox; the
\* reader goes on reading and handling what arrives, and the periodic
\* routines go on being called.
C21_FaultStopsDispatch ==
    /\ [](\A k \in 1..Len(mlog) : IsFault(mlog[k]) => (k = Len(mlog) /\ pc = "dead"))
    /\ [][Faulted => /\ mlog' = mlog
                      /\ pc' = "dead"
                      /\ Len(inbox') >= Len(inbox)
                      /\ SubSeq(inbox', 1, Len(inbox)) = inbox]_vars
    /\ []((Faulted /\ readerOn) => <>(net = <<>> /\ pending = <<>>))
    /\ [](Faulted => <>RoutineSleeps)
    /\ [](Faulted => <>RoutineCalls)

\* a handler has raised with a second matching rule behind it, the reader
\* has put a later PRIVMSG line on the inbox and the periodic routine has
\* run twice or more
C21_Witness ==
    /\ Faulted
    /\ pc = "dead"
    /\ iter < Len(callbacks)
    /\ \E t \in 1..Len(threads) : Sound(t) /\ threads[t].calls >= 2
    /\ \E i \in 1..Len(inbox) : IsPrivmsg(inbox[i])
    /\ net = <<>>
    /\ pending = <<>>

(* --- waitfor --- *)

IsWaitfor(e) == e.op = "waitfor"
IsLoginLine(line) == IsLoggedIn(line)

\* the lines the reader has put on the inbox, in order
Puts == Datas(SelectSeq(rlog, IsPut))

\* the position in Puts of the first line that satisfies the condition of
\* the wait, 0 when there is none
RECURSIVE FirstLogin(_)
FirstLogin(from) ==
    IF from > Len(Puts) THEN 0
    ELSE IF IsLoginLine(Puts[from]) THEN from
    ELSE FirstLogin(from + 1)

CalledIn(i, name) == \E n \in 1..Len(CallsIn(Pass(i))) : CallsIn(Pass(i))[n] = name

\* C23: the bot keeps the prefix it was made with, the predicate of its
\* Named rule ping is true of a text exactly when it is with that prefix,
\* and once the loop is through with a message the handler of ping was
\* called for it iff its text is the prefix and ping, alone or followed by
\* a space.
C23_OwnPrefix ==
    /\ prefix = <<"!">>
    /\ \A l \in PrefixLines :
          Matches(CmdPing, Message(l), PREFIX) = Matches(CmdPing, Message(l), prefix)
    /\ \A i \in Returned :
          Through(i) =>
              (CalledIn(i, <<"ping">>) <=> Fits(MessageAt(i).text, prefix \o <<"ping">>))

(* --- the two mappings --- *)

\* C24: every name of commands_help is a key of callbacks, and both map it
\* to the same Command.
C24_HelpRestricts ==
    \A k \in 1..Len(commands_help) :
        \E j \in 1..Len(callbacks) :
            /\ callbacks[j].name = commands_help[k].name
            /\ callbacks[j].cmnd_type = commands_help[k].cmnd_type
            /\ callbacks[j] = commands_help[k]

(* --- the first lines written --- *)

\* C25: the first line on the wire is USER and the second is NICK.
C25_UserNickFirst ==
    /\ Len(wire) >= 1 => Sent(wire[1], UserLine)
    /\ Len(wire) >= 2 => Sent(wire[2], NickLine)
====
